---- MODULE Spec2Model ----
(***************************************************************************)
(* State-machine model of the garmin-wind-api request handlers:            *)
(*   - the hour-fallback wind handlers of src/api/wind.js (exact-name      *)
(*     matching, lines 10-118, and first-token matching, lines 124-241);   *)
(*   - the full-directory handler of src/api/all-stations.js;              *)
(*   - the merged nearest-station handler of src/unnamed/part_003          *)
(*     (lines 159-272).                                                    *)
(* One request is served per behaviour.  Upstream responses are inputs,    *)
(* drawn when they arrive.                                                 *)
(*                                                                         *)
(* Numbers are fixed-point, in tenths (3.6 is 36); NaN is a separate value. *)
(* Strings that the code parses or splits are sequences of characters.     *)
(***************************************************************************)
EXTENDS Integers, Sequences, FiniteSets, TLC

VARIABLES
    variant,        \* which handler serves the request
    pc,             \* position of the handler
    hourOffset,     \* loop variable of the hour-fallback loop
    name,           \* station.nimi of the nearest-station lookup
    stationMatch,   \* the hourly entry the handler answered from
    inlandRes,      \* response of the inland feed fetch, once arrived
    coastalRes,     \* response of the coastal feed fetch, once arrived
    now,            \* Date.now() of the merge, in milliseconds
    combinedStations,
    cleanStations,
    nearest,        \* sortedStations[0] of the merged nearest-station handler
    ran,            \* the steps of the merge that ran
    res,            \* the response sent to the caller
    sent,           \* how many responses were sent
    fetches,        \* log of the upstream fetches issued, in order
    wallClock,      \* Europe/Tallinn wall clock of the request, in whole hours
                    \* since the midnight that begins day 0
    serverZone,     \* UTC offset of the server process's time zone, in hours
    buckets         \* the (date, hour) pairs of the hourly fetches, in order

clockVars == <<wallClock, serverZone>>

vars == <<variant, pc, hourOffset, name, stationMatch, inlandRes, coastalRes,
          now, combinedStations, cleanStations, nearest, ran, res, sent, fetches,
          wallClock, serverZone, buckets>>

----------------------------------------------------------------------------
(* Bounds of the model *)

\* last day of the wall clocks a request is served at
MaxDay == 2

\* longest report list of one hourly bucket
MaxEntries == 2
\* most reports the inland and the coastal feed hold together
MaxReports == 2

(* Program constants *)

\* wind.js:41  if (parseFloat(distance) > 200)
MaxRangeKm == 200

LastHourOffsetAlt == 3 - 1
\* wind.js:56  for (let hourOffset = 0; hourOffset <= 3; hourOffset++)
LastHourOffset == 3

----------------------------------------------------------------------------
(* JSON values as the handlers see them *)

Null == [t |-> "null", s |-> <<>>]
Undefined == [t |-> "undefined", s |-> <<>>]
Str(cs) == [t |-> "string", s |-> cs]
\* a JSON number, written with its digits
Num(cs) == [t |-> "number", s |-> cs]

\* JavaScript numbers: tenths, or NaN
NaN == [nan |-> TRUE, v |-> 0]
Val(n) == [nan |-> FALSE, v |-> n]

IsDigit(c) == c \in {"0", "1", "2", "3", "4", "5", "6", "7", "8", "9"}
DigitVal(c) == CHOOSE i \in 0..9 : <<"0", "1", "2", "3", "4", "5", "6", "7", "8", "9">>[i + 1] = c

RECURSIVE LeadingDigits(_)
LeadingDigits(cs) ==
    IF cs # <<>> /\ IsDigit(Head(cs)) THEN 1 + LeadingDigits(Tail(cs)) ELSE 0

RECURSIVE DigitsValue(_, _)
DigitsValue(cs, n) ==
    IF n = 0 THEN 0 ELSE DigitsValue(cs, n - 1) * 10 + DigitVal(cs[n])

\* parseFloat on the characters of a string: the longest numeric prefix
\* (digits, then optionally "." and digits), NaN when there is none.  The
\* result keeps one fractional digit.
ParseChars(cs) ==
    LET n == LeadingDigits(cs)
        rest == SubSeq(cs, n + 1, Len(cs))
        hasFrac == Len(rest) >= 2 /\ rest[1] = "." /\ IsDigit(rest[2])
    IN  IF n = 0 /\ ~hasFrac THEN NaN
        ELSE Val(DigitsValue(cs, n) * 10 + (IF hasFrac THEN DigitVal(rest[2]) ELSE 0))

\* parseFloat(v): ToString(v) first; "null" and "undefined" have no numeric prefix
parseFloat(v) ==
    IF v.t \in {"string", "number"} THEN ParseChars(v.s) ELSE NaN

\* a > b on JavaScript numbers: false when either is NaN
Gt(a, b) == ~a.nan /\ ~b.nan /\ a.v > b.v
Ge(a, b) == ~a.nan /\ ~b.nan /\ a.v >= b.v

\* String.prototype.replace(",", "."): the first comma only
RECURSIVE ReplaceComma(_)
ReplaceComma(cs) ==
    IF cs = <<>> THEN <<>>
    ELSE IF Head(cs) = "," THEN <<".">> \o Tail(cs)
    ELSE <<Head(cs)>> \o ReplaceComma(Tail(cs))

\* name.split(" ")[0]
RECURSIVE FirstToken(_)
FirstToken(cs) ==
    IF cs = <<>> \/ Head(cs) = " " THEN <<>>
    ELSE <<Head(cs)>> \o FirstToken(Tail(cs))

\* JavaScript truthiness of a JSON scalar
Truthy(v) == v.t \notin {"null", "undefined"} /\ v.s # <<>>

\* Array.prototype.find with s => s.Jaam === nm: index of the first element
\* of that name, 0 if none
FindIndex(list, nm) ==
    IF \E i \in 1..Len(list) : list[i].Jaam = nm
    THEN CHOOSE i \in 1..Len(list) :
            list[i].Jaam = nm /\ \A j \in 1..(i - 1) : list[j].Jaam # nm
    ELSE 0

RECURSIVE SeqsUpTo(_, _)
SeqsUpTo(S, n) ==
    IF n = 0 THEN {<<>>}
    ELSE LET shorter == SeqsUpTo(S, n - 1)
         IN  shorter \cup {Append(q, x) : q \in {p \in shorter : Len(p) = n - 1}, x \in S}

----------------------------------------------------------------------------
(* Responses sent to the caller *)

NoName == <<>>
NoStations == <<>>
\* no retrieved_at key in the response
NoTime == <<>>

NoRes == [status |-> 0, error |-> "", upstream |-> <<>>, windSpeed |-> NaN,
          windDir |-> NaN, stationName |-> NoName, stations |-> NoStations,
          retrieved_at |-> NoTime]

\* res.status(code).json({ error: msg })
ErrorRes(code, msg) == [NoRes EXCEPT !.status = code, !.error = msg]
\* the catch block with an Error carrying upstream HTTP statuses
UpstreamErrorRes(msg, statuses) ==
    [NoRes EXCEPT !.status = 500, !.error = msg, !.upstream = statuses]
\* res.status(200).json({ windSpeed, windDir })
WindRes(ws, wd) ==
    [NoRes EXCEPT !.status = 200, !.error = "", !.windSpeed = ws, !.windDir = wd]

----------------------------------------------------------------------------
(* Upstream inputs of the hour-fallback handlers *)

PiritaRJ == <<"P", "i", "r", "i", "t", "a", " ", "R", "J">>
Pirita == <<"P", "i", "r", "i", "t", "a">>

\* an upstream HTTP exchange: the fetch threw, or returned a response that
\* is ok or not; present says whether body?.entries?.entry is there
Threw == [outcome |-> "threw", status |-> 0, present |-> FALSE, list |-> <<>>]
NotOk(code) == [outcome |-> "notOk", status |-> code, present |-> FALSE, list |-> <<>>]
OkAbsent == [outcome |-> "ok", status |-> 200, present |-> FALSE, list |-> <<>>]
OkList(l) == [outcome |-> "ok", status |-> 200, present |-> TRUE, list |-> l]

FailStatuses == {404, 503}

\* records of the nearest-station endpoint: nimi and kaugus ("5.9")
StationRecords ==
    [nimi : {Str(PiritaRJ), Str(Pirita)},
     kaugus : {Str(<<"5", ".", "9">>), Str(<<"1", "9", "9", ".", "9">>),
               Str(<<"2", "0", "0">>), Str(<<"2", "0", "0", ".", "1">>),
               Str(<<"3", "5", "0">>), Str(<<"n", "/", "a">>), Undefined}]

StationResponses ==
    {Threw} \cup {NotOk(c) : c \in FailStatuses} \cup {OkAbsent, OkList(<<>>)}
    \cup {OkList(<<st>>) : st \in StationRecords}

\* records of the hourly wind feed: station name, ws10ma ("3,6"), wd10ma ("69.0").
\* Jaam is the name key the handler reads (s.Jaam at wind.js:81, s.jaam at
\* wind.js:204)
HourEntry(nm, ws, wd) == [Jaam |-> Str(nm), ws10ma |-> ws, wd10ma |-> wd]

Dir69 == Str(<<"6", "9", ".", "0">>)
Speed36 == Str(<<"3", ",", "6">>)

\* for the full name: complete, null speed, null direction, speed absent,
\* speed a JSON number; for the bare first token: complete and null speed
HourEntries ==
    {HourEntry(PiritaRJ, Speed36, Dir69),
     HourEntry(PiritaRJ, Null, Dir69),
     HourEntry(PiritaRJ, Speed36, Null),
     HourEntry(PiritaRJ, Undefined, Dir69),
     HourEntry(PiritaRJ, Num(<<"4", ".", "1">>), Dir69),
     HourEntry(Pirita, Str(<<"5", ".", "2">>), Dir69),
     HourEntry(Pirita, Null, Dir69)}

WindResponses ==
    {Threw} \cup {NotOk(c) : c \in FailStatuses} \cup {OkAbsent}
    \cup {OkList(l) : l \in SeqsUpTo(HourEntries, MaxEntries)}

NoEntry == [Jaam |-> Undefined, ws10ma |-> Undefined, wd10ma |-> Undefined]

----------------------------------------------------------------------------
(* The hour-fallback handlers, as functions of the response just received *)

FallbackVariants == {"exact", "firstToken"}

Respond(r) == [act |-> "respond", res |-> r, match |-> NoEntry]
RespondFrom(r, m) == [act |-> "respond", res |-> r, match |-> m]
Continue(m) == [act |-> "continue", res |-> NoRes, match |-> m]

NotOkAlt(r) == FALSE
\* if (!stationRes.ok)  /  if (!windRes.ok)  /  !inlandRes.ok
NotOkResponse(r) == r.outcome = "notOk"

OutOfRangeUnlessNear(distance) == ~Ge(Val(MaxRangeKm * 10), distance)
OutOfRangeAlt(distance) == Ge(distance, Val(MaxRangeKm * 10))
\* if (parseFloat(distance) > 200)  /  if (nearestStation.distance > 200)
OutOfRange(distance) == Gt(distance, Val(MaxRangeKm * 10))

\* stationData?.entries?.entry?.[0]
FirstStation(r) == IF r.present /\ Len(r.list) >= 1 THEN <<r.list[1]>> ELSE <<>>

\* steps 1 and 2: the nearest-station response, up to the 200 km check
StationOutcome(r) ==
    IF r.outcome = "threw" THEN Respond(ErrorRes(500, "fetch failed"))
    ELSE IF NotOkResponse(r)
    THEN Respond(UpstreamErrorRes("EMHI P1 Error", <<r.status>>))
    ELSE IF FirstStation(r) = <<>> THEN Respond(ErrorRes(500, "P1_PARSE"))
    ELSE IF OutOfRange(parseFloat(FirstStation(r)[1].kaugus))
    THEN Respond(ErrorRes(200, "OOR"))
    ELSE Continue(NoEntry)

\* const nameToMatch = name;  (exact)   name.split(" ")[0];  (firstToken)
NameToMatch(v, nm) == IF v = "exact" THEN nm ELSE Str(FirstToken(nm.s))

DataIsNullAlt(m) == m.ws10ma = Null /\ m.wd10ma = Null
\* if (ws10ma_str === null || wd10ma_str === null)
DataIsNull(m) == m.ws10ma = Null \/ m.wd10ma = Null

\* parseFloat(ws10ma_str.replace(",", ".")) and parseFloat(wd10ma_str);
\* .replace on a value that is no string throws a TypeError
FormatWind(m) ==
    IF m.ws10ma.t # "string" THEN RespondFrom(ErrorRes(500, "TypeError"), m)
    ELSE RespondFrom(WindRes(parseFloat(Str(ReplaceComma(m.ws10ma.s))),
                             parseFloat(m.wd10ma)), m)

\* one iteration of the loop body after its fetch returned: respond, or
\* continue with the next hourOffset
HourOutcome(v, r, nm) ==
    IF r.outcome = "threw" THEN Respond(ErrorRes(500, "fetch failed"))
    ELSE IF NotOkResponse(r)
    THEN Respond(UpstreamErrorRes("EMHI P2 Error", <<r.status>>))
    \* const allStations = windData?.entries?.entry; if (!allStations) continue;
    ELSE IF ~r.present THEN Continue(NoEntry)
    ELSE LET i == FindIndex(r.list, NameToMatch(v, nm))
         IN  IF i = 0 THEN Continue(NoEntry)
             ELSE IF DataIsNull(r.list[i]) THEN Continue(r.list[i])
             ELSE FormatWind(r.list[i])

----------------------------------------------------------------------------
(* Upstream inputs of the feed merger *)

Kunda == <<"K", "u", "n", "d", "a">>

\* Date.now() values, in milliseconds since midnight of the day modelled:
\* 12:00:00.000 and 12:00:00.600
NowValues == {43200000, 43200600}

TimeFresh == Str(<<"1", "1", ":", "0", "0", ":", "0", "0">>)
TimeEdge == Str(<<"1", "0", ":", "0", "0", ":", "0", "0">>)
TimeStale == Str(<<"0", "9", ":", "5", "9", ":", "5", "9">>)

\* a complete, fresh report at 59 24'0" N 24 48'0" E
Report(nm, ws) ==
    [Jaam |-> Str(nm), ws10ma |-> Str(ws), wd10ma |-> Str(<<"6", "9", ".", "0">>),
     Time |-> TimeFresh,
     LaiusKraad |-> Str(<<"5", "9">>), LaiusMinut |-> Str(<<"2", "4">>),
     LaiusSekund |-> Str(<<"0">>),
     PikkusKraad |-> Str(<<"2", "4">>), PikkusMinut |-> Str(<<"4", "8">>),
     PikkusSekund |-> Str(<<"0">>)]

At(r, k, m, sec) ==
    [r EXCEPT !.LaiusKraad = Str(k), !.LaiusMinut = Str(m), !.LaiusSekund = Str(sec)]

FeedReports ==
    {Report(Pirita, <<"3", ",", "6">>),
     At(Report(Pirita, <<"5", ".", "2">>), <<"5", "8">>, <<"2", "4">>, <<"0">>),
     [Report(Pirita, <<"3", ",", "6">>) EXCEPT !.ws10ma = Null],
     [Report(Kunda, <<"4", ".", "0">>) EXCEPT !.Time = TimeStale],
     At([Report(Kunda, <<"4", ".", "0">>) EXCEPT !.Time = TimeEdge],
        <<"5", "7">>, <<"3", "6">>, <<"3">>),
     At(Report(Kunda, <<"7", ",", "5">>), <<"5", "7">>, <<"3", "6">>, <<"9">>),
     [Report(Kunda, <<"4", ".", "0">>) EXCEPT !.ws10ma = Undefined],
     [Report(Kunda, <<"4", ".", "0">>) EXCEPT !.LaiusKraad = Null],
     [Report(Kunda, <<"4", ".", "0">>) EXCEPT !.LaiusMinut = Undefined]}

FeedResponses ==
    {Threw} \cup {NotOk(c) : c \in FailStatuses} \cup {OkAbsent}
    \cup {OkList(l) : l \in SeqsUpTo(FeedReports, MaxReports)}

NoReport ==
    [Jaam |-> Undefined, ws10ma |-> Undefined, wd10ma |-> Undefined, Time |-> Undefined,
     LaiusKraad |-> Undefined, LaiusMinut |-> Undefined, LaiusSekund |-> Undefined,
     PikkusKraad |-> Undefined, PikkusMinut |-> Undefined, PikkusSekund |-> Undefined]

NoNearest == [station |-> NoReport, distance |-> NaN]

NoResponse == [outcome |-> "none", status |-> 0, present |-> FALSE, list |-> <<>>]

----------------------------------------------------------------------------
(* The feed merger *)

\* "directory" is src/api/all-stations.js, "envelope" is the directory handler
\* of src/unnamed/part_000, "merged" is the handler of part_003:159-272
DirectoryVariants == {"directory", "envelope"}
MergerVariants == DirectoryVariants \cup {"merged"}

FeedsFailedAlt(i, c) == NotOkResponse(i) /\ NotOkResponse(c)
\* if (!inlandRes.ok || !coastalRes.ok)
FeedsFailed(i, c) == NotOkResponse(i) \/ NotOkResponse(c)

\* inlandData?.entries?.entry || []
EntriesOf(r) == IF r.present THEN r.list ELSE <<>>

CombineAlt(i, c) == c.list \o i.list
\* [...inlandStations, ...coastalStations]
Combine(i, c) == EntriesOf(i) \o EntriesOf(c)

\* new Date(station.Time).getTime().  station.Time is a timestamp string; the
\* model writes its time of day "HH:MM:SS" only, all reports being of the day
\* modelled, and counts milliseconds from that day's midnight.  NaN for any
\* other string and for undefined, 0 for null
DateParse(v) ==
    IF v.t = "null" THEN Val(0)
    ELSE IF v.t = "string" /\ Len(v.s) = 8 /\ v.s[3] = ":" /\ v.s[6] = ":"
            /\ \A k \in {1, 2, 4, 5, 7, 8} : IsDigit(v.s[k])
    THEN Val(((DigitsValue(SubSeq(v.s, 1, 2), 2) * 60
               + DigitsValue(SubSeq(v.s, 4, 5), 2)) * 60
              + DigitsValue(SubSeq(v.s, 7, 8), 2)) * 1000)
    ELSE NaN

\* Math.floor(x / 1000)
FloorSeconds(x) == IF x.nan THEN NaN ELSE Val(x.v \div 1000)

\* now_unix - (2 * 3600)
TwoHoursAgo(nowMs) == Val((nowMs \div 1000) - (2 * 3600))

IsRecentAlt(st, nowMs) == Ge(DateParse(st.Time), TwoHoursAgo(nowMs))
\* if (stationTimestamp_unix >= twoHoursAgo_unix)
IsRecent(st, nowMs) == Ge(FloorSeconds(DateParse(st.Time)), TwoHoursAgo(nowMs))

\* the validity test: all-stations.js:86-87 and part_000:67-68 also test the
\* two degree fields,
\* part_003:210 tests wind speed, wind direction and time only
IsValid(v, st) ==
    /\ st.ws10ma # Null /\ st.wd10ma # Null /\ st.Time # Null
    /\ (v \in DirectoryVariants => st.LaiusKraad # Null /\ st.PikkusKraad # Null)

HasName(clean, nm) == \E k \in 1..Len(clean) : clean[k].Jaam = nm

\* the stationMap loop: a report enters the map when it has a name the map
\* does not hold yet and is valid and recent; the map keeps insertion order
RECURSIVE StationMap(_, _, _, _)
StationMap(v, combined, nowMs, clean) ==
    IF combined = <<>> THEN clean
    ELSE LET st == Head(combined)
             keep == /\ Truthy(st.Jaam) /\ ~HasName(clean, st.Jaam)
                     /\ IsValid(v, st) /\ IsRecent(st, nowMs)
         IN  StationMap(v, Tail(combined), nowMs,
                        IF keep THEN Append(clean, st) ELSE clean)

\* Array.from(stationMap.values())
Clean(v, combined, nowMs) == StationMap(v, combined, nowMs, <<>>)

\* K + (M / 60) + (S / 3600), in units of 1/36000 degree
dmsToDecimal(kraad, minut, sekund) ==
    LET K == parseFloat(kraad)
        M == parseFloat(minut)
        S == parseFloat(sekund)
    IN  IF K.nan \/ M.nan \/ S.nan THEN NaN
        ELSE Val(K.v * 3600 + M.v * 60 + S.v)

StationLat(st) == dmsToDecimal(st.LaiusKraad, st.LaiusMinut, st.LaiusSekund)
StationLon(st) == dmsToDecimal(st.PikkusKraad, st.PikkusMinut, st.PikkusSekund)

\* a number of degrees in the unit of dmsToDecimal
Degrees(x) == IF x.nan THEN NaN ELSE Val(x.v * 3600)

\* const userLat = parseFloat(lat); the request modelled has lat=59.4&lon=24.8
UserLat == Degrees(parseFloat(Str(<<"5", "9", ".", "4">>)))
UserLon == Degrees(parseFloat(Str(<<"2", "4", ".", "8">>)))

Abs(x) == IF x < 0 THEN -x ELSE x

\* the haversine distance with R = 6371, in tenths of a kilometre, tabulated
\* for the coordinates of FeedReports: along one meridian it depends on the
\* difference of latitude (1/36000 degree) only
getDistance(lat1, lon1, lat2, lon2) ==
    IF lat1.nan \/ lon1.nan \/ lat2.nan \/ lon2.nan THEN NaN
    ELSE LET dLat == Abs(lat2.v - lat1.v)
         IN  CASE lon1.v = lon2.v /\ dLat = 0 -> Val(0)
               [] lon1.v = lon2.v /\ dLat = 36000 -> Val(1112)
               [] lon1.v = lon2.v /\ dLat = 64710 -> Val(1999)
               [] lon1.v = lon2.v /\ dLat = 64770 -> Val(2001)

\* cleanStations.map(station => ({ ...station, distance }))
WithDistance(clean) ==
    [k \in 1..Len(clean) |->
        [station |-> clean[k],
         distance |-> getDistance(UserLat, UserLon,
                                  StationLat(clean[k]), StationLon(clean[k]))]]

Perms(n) == {p \in [1..n -> 1..n] : \A a, b \in 1..n : a # b => p[a] # p[b]}

\* the comparator (a, b) => a.distance - b.distance; a NaN result counts as 0
Compare(a, b) ==
    IF a.distance.nan \/ b.distance.nan THEN 0 ELSE a.distance.v - b.distance.v

\* stationsWithDistance.sort(...): a stable sort.  With a NaN distance among
\* different distances the comparator is not a consistent one (the NaN
\* element equals both a nearer and a farther one) and the order is whatever
\* the engine produces
SortOutcomes(list) ==
    LET n == Len(list)
        consistent == \A a, b, c \in 1..n :
                         Compare(list[a], list[b]) = 0 /\ Compare(list[b], list[c]) = 0
                            => Compare(list[a], list[c]) = 0
        sorted(p) == \A a, b \in 1..n : a < b =>
                        \/ Compare(list[p[a]], list[p[b]]) < 0
                        \/ (Compare(list[p[a]], list[p[b]]) = 0 /\ p[a] < p[b])
    IN  IF consistent
        THEN {[k \in 1..n |-> list[p[k]]] : p \in {q \in Perms(n) : sorted(q)}}
        ELSE {[k \in 1..n |-> list[p[k]]] : p \in Perms(n)}

\* the Estonian HH:mm of an instant: Europe/Tallinn is UTC+2 on the day modelled
ObservationTime(ms) ==
    LET minutes == ms.v \div 60000
    IN  <<((minutes \div 60) + 2) % 24, minutes % 60>>

\* cleanStations.map(station => ({ name, latitude, longitude, wind_speed, ... }))
PortalData(clean) ==
    [k \in 1..Len(clean) |->
        [name |-> clean[k].Jaam,
         latitude |-> StationLat(clean[k]),
         longitude |-> StationLon(clean[k]),
         wind_speed |-> parseFloat(clean[k].ws10ma),
         wind_direction |-> parseFloat(clean[k].wd10ma),
         observation_time |-> ObservationTime(DateParse(clean[k].Time))]]

\* res.status(200).json(portalData)
DirectoryRes(list) == [NoRes EXCEPT !.status = 200, !.stations = list]

\* res.status(200).json({ windSpeed, windDir, stationName })
NearestRes(st) ==
    [NoRes EXCEPT !.status = 200, !.windSpeed = parseFloat(st.ws10ma),
                  !.windDir = parseFloat(st.wd10ma), !.stationName = st.Jaam.s]

\* part_000:82  { retrieved_at: "N/A", stations: [] }  and part_000:119-122
\* { retrieved_at: estonianTime, stations: portalData }
NotAvailable == <<"N/A">>
EnvelopeRes(at, list) ==
    [NoRes EXCEPT !.status = 200, !.retrieved_at = at, !.stations = list]

\* part_000:12  const M = parseFloat(minutes);  no variable minutes is declared
\* in the file, so that evaluating the line throws a ReferenceError
dmsToDecimalThrows(v) == v = "envelope"

RawEmptyAlt(combined) == FALSE
\* if (combinedStations.length === 0)
RawEmpty(combined) == Len(combined) = 0

Outcome(r, n) == [res |-> r, nearest |-> n]

\* everything after Promise.all resolved: the responses the handler may
\* send (with sortedStations[0], when it got that far), given both upstream
\* responses and Date.now()
MergeOutcomes(v, i, c, nowMs) ==
    IF FeedsFailed(i, c)
    THEN {Outcome(UpstreamErrorRes("EMHI Error", <<i.status, c.status>>), NoNearest)}
    ELSE IF RawEmpty(Combine(i, c))
    THEN {Outcome(ErrorRes(500, "STATION_LIST_PARSE_FAIL"), NoNearest)}
    \* const cleanStations = Array.from(stationMap.values()), computed once
    ELSE UNION {IF v = "directory"
             THEN {Outcome(DirectoryRes(PortalData(clean)), NoNearest)}
             ELSE IF v = "envelope"
             THEN {Outcome(IF clean = <<>> THEN EnvelopeRes(NotAvailable, <<>>)
                           ELSE IF dmsToDecimalThrows(v)
                           THEN ErrorRes(500, "minutes is not defined")
                           ELSE EnvelopeRes(ObservationTime(Val(nowMs)),
                                            PortalData(clean)),
                           NoNearest)}
             ELSE IF clean = <<>> THEN {Outcome(ErrorRes(200, "NO_DATA"), NoNearest)}
             ELSE {Outcome(IF OutOfRange(sorted[1].distance)
                           THEN ErrorRes(200, "OOR")
                           ELSE NearestRes(sorted[1].station), sorted[1]) :
                      sorted \in SortOutcomes(WithDistance(clean))} :
                clean \in {Clean(v, Combine(i, c), nowMs)}}

----------------------------------------------------------------------------
(* The log of upstream fetches.  Each hourly fetch is logged with what its
   bucket held for the full station name of the nearest-station lookup. *)

\* the first entry of a bucket that carries the name nm
FirstNamed(list, nm) ==
    LET i == FindIndex(list, nm)
    IN  IF i = 0 THEN NoEntry ELSE list[i]

BucketKind(r, nm) ==
    IF r.outcome # "ok" THEN r.outcome
    ELSE IF ~r.present THEN "absent"
    ELSE IF r.list = <<>> THEN "empty"
    ELSE IF FirstNamed(r.list, nm) = NoEntry THEN "noMatch"
    ELSE IF FirstNamed(r.list, nm).ws10ma = Null \/ FirstNamed(r.list, nm).wd10ma = Null
    THEN "nullMatch"
    ELSE "complete"

\* the distance each kaugus string of StationRecords denotes, in tenths of a
\* kilometre; -1 where the field is absent or denotes no number
DistanceKm(v) ==
    CASE v = Str(<<"5", ".", "9">>) -> 59
      [] v = Str(<<"1", "9", "9", ".", "9">>) -> 1999
      [] v = Str(<<"2", "0", "0">>) -> 2000
      [] v = Str(<<"2", "0", "0", ".", "1">>) -> 2001
      [] v = Str(<<"3", "5", "0">>) -> 3500
      [] OTHER -> -1

\* what the nearest-station response says about the range
StationKind(r) ==
    IF r.outcome # "ok" THEN r.outcome
    ELSE IF FirstStation(r) = <<>> THEN "absent"
    ELSE IF DistanceKm(FirstStation(r)[1].kaugus) = -1 THEN "noDistance"
    ELSE IF DistanceKm(FirstStation(r)[1].kaugus) = 2000 THEN "atLimit"
    ELSE IF DistanceKm(FirstStation(r)[1].kaugus) > 2000 THEN "beyond"
    ELSE "within"

\* at is the rank of the fetch among the fetches answered, 0 while it is pending
Issued(url, k) ==
    [url |-> url, hourOffset |-> k, kind |-> "pending", entry |-> NoEntry, at |-> 0]

\* a fetch whose promise has not settled: still awaited, or never to be answered
Unsettled == {"pending", "stalled"}

AnsweredCount(log) == Cardinality({j \in 1..Len(log) : log[j].kind \notin Unsettled})

\* the log with its last fetch answered
Answered(log, kind, entry) ==
    [log EXCEPT ![Len(log)] = [@ EXCEPT !.kind = kind, !.entry = entry,
                                        !.at = AnsweredCount(log) + 1]]

AnsweredAt(log, k, kind) ==
    [log EXCEPT ![k] = [@ EXCEPT !.kind = kind, !.at = AnsweredCount(log) + 1]]

----------------------------------------------------------------------------
(* The hour bucket of an hourly fetch.  Instants are whole hours since the
   midnight (UTC) that begins day 0; a zone is a fixed offset from UTC. *)

\* new Date(now.toLocaleString('en-US', { timeZone: 'Europe/Tallinn' })): the
\* string is the Tallinn wall clock, which new Date reads as a wall clock of
\* the server's zone
EstonianTime(clock, zone) == clock - zone

\* new Date(estonianTime.getTime() - hourOffset * 3600000)
TimeToTry(estonianTime, k) == estonianTime - k

\* timeToTry.toISOString().split('T')[0]: the calendar day in UTC
DateStr(t) == t \div 24

\* timeToTry.getHours(): the hour of the day in the server's zone
HourStr(t, zone) == (t + zone) % 24

Bucket(clock, zone, k) ==
    LET t == TimeToTry(EstonianTime(clock, zone), k)
    IN  [date |-> DateStr(t), hour |-> HourStr(t, zone)]

\* wall clocks of days 1..MaxDay, and the zones UTC, Europe/Tallinn in winter
\* and in summer, America/New_York in winter
Clocks == 24..(24 * (MaxDay + 1) - 1)
Zones == {0, 2, 3, -5}

----------------------------------------------------------------------------
(* The state machine *)

Variants == FallbackVariants \cup MergerVariants

Init ==
    /\ variant \in Variants
    /\ pc = "start"
    /\ hourOffset = 0
    /\ name = Undefined
    /\ stationMatch = NoEntry
    /\ inlandRes = NoResponse
    /\ coastalRes = NoResponse
    /\ now = 0
    /\ combinedStations = <<>>
    /\ cleanStations = <<>>
    /\ nearest = NoNearest
    /\ ran = {}
    /\ res = NoRes
    /\ sent = 0
    /\ fetches = <<>>
    /\ wallClock = 25
    /\ serverZone = 0
    /\ buckets = <<>>

SendAlt(r) ==
    /\ res' = r
    /\ sent' = sent + 1
    /\ pc' = pc

\* the handler returns res.status(...).json(...)
Send(r) ==
    /\ res' = r
    /\ sent' = sent + 1
    /\ pc' = "done"

\* wind.js:12-23 and part_003:161-179: the lat/lon check, then the first fetch
\* (the nearest-station fetch, or both feed fetches of Promise.all)
StartQuery ==
    /\ pc = "start"
    /\ variant \in FallbackVariants \cup {"merged"}
    /\ \E hasLatLon \in BOOLEAN :
          IF ~hasLatLon
          THEN /\ Send(ErrorRes(400, "Missing lat/lon parameters"))
               /\ UNCHANGED fetches
          ELSE /\ fetches' = IF variant = "merged"
                             THEN <<Issued("inland", 0), Issued("coastal", 0)>>
                             ELSE <<Issued("station", 0)>>
               /\ pc' = IF variant = "merged" THEN "awaitFeeds" ELSE "awaitStation"
               /\ UNCHANGED <<res, sent>>
    /\ UNCHANGED <<variant, hourOffset, name, stationMatch, inlandRes, coastalRes,
                   now, combinedStations, cleanStations, nearest, ran, clockVars,
                   buckets>>

\* all-stations.js:34-60: the OPTIONS pre-flight, then both feed fetches;
\* part_000:18-39 has no pre-flight
StartDirectory ==
    /\ pc = "start"
    /\ variant \in DirectoryVariants
    /\ \E method \in (IF variant = "directory" THEN {"GET", "OPTIONS"} ELSE {"GET"}) :
          IF method = "OPTIONS"
          THEN /\ Send([NoRes EXCEPT !.status = 200])
               /\ UNCHANGED fetches
          ELSE /\ fetches' = <<Issued("inland", 0), Issued("coastal", 0)>>
               /\ pc' = "awaitFeeds"
               /\ UNCHANGED <<res, sent>>
    /\ UNCHANGED <<variant, hourOffset, name, stationMatch, inlandRes, coastalRes,
                   now, combinedStations, cleanStations, nearest, ran, clockVars,
                   buckets>>

\* wind.js:23-65: the nearest-station response, the 200 km check, and the
\* first hourly fetch, for a response of the set given
StationArrivesFrom(responses) ==
    /\ pc = "awaitStation"
    /\ fetches[Len(fetches)].kind = "pending"
    /\ \E r \in responses :
          LET o == StationOutcome(r)
          IN  IF o.act = "respond"
              THEN /\ Send(o.res)
                   /\ fetches' = Answered(fetches, StationKind(r), NoEntry)
                   /\ UNCHANGED <<name, hourOffset, buckets>>
              ELSE /\ name' = FirstStation(r)[1].nimi
                   /\ hourOffset' = 0
                   /\ buckets' = <<Bucket(wallClock, serverZone, 0)>>
                   /\ fetches' = Append(Answered(fetches, StationKind(r), NoEntry),
                                        Issued("wind", 0))
                   /\ pc' = "awaitWind"
                   /\ UNCHANGED <<res, sent>>
    /\ UNCHANGED <<variant, stationMatch, inlandRes, coastalRes, now,
                   combinedStations, cleanStations, nearest, ran, clockVars>>

StationArrives == StationArrivesFrom(StationResponses)

\* wind.js:56-111: the response of the hourly fetch of hourOffset, then either
\* the response of the handler or the fetch of the next hourOffset, for a
\* response of the set given
WindArrivesFrom(responses) ==
    /\ pc = "awaitWind"
    /\ fetches[Len(fetches)].kind = "pending"
    /\ \E r \in responses :
          LET o == HourOutcome(variant, r, name)
              log == Answered(fetches, BucketKind(r, name),
                              IF BucketKind(r, name) = "complete"
                              THEN FirstNamed(r.list, name) ELSE NoEntry)
          IN  /\ stationMatch' = IF o.act = "respond" THEN o.match ELSE NoEntry
              /\ IF o.act = "respond"
                 THEN /\ Send(o.res)
                      /\ fetches' = log
                      /\ UNCHANGED <<hourOffset, buckets>>
                 ELSE IF hourOffset + 1 <= LastHourOffset
                 THEN /\ hourOffset' = hourOffset + 1
                      /\ buckets' = Append(buckets,
                                           Bucket(wallClock, serverZone, hourOffset + 1))
                      /\ fetches' = Append(log, Issued("wind", hourOffset + 1))
                      /\ UNCHANGED <<pc, res, sent>>
                 ELSE /\ Send(ErrorRes(200, "NO_DATA"))
                      /\ fetches' = log
                      /\ UNCHANGED <<hourOffset, buckets>>
    /\ UNCHANGED <<variant, name, inlandRes, coastalRes, now, combinedStations,
                   cleanStations, nearest, ran, clockVars>>

WindArrives == WindArrivesFrom(WindResponses)

\* Promise.all: a fetch that throws rejects the whole await at once
InlandArrives ==
    /\ pc = "awaitFeeds"
    /\ inlandRes = NoResponse
    /\ fetches[1].kind = "pending"
    /\ \E r \in FeedResponses :
          /\ Len(r.list) + Len(coastalRes.list) <= MaxReports
          /\ fetches' = AnsweredAt(fetches, 1, r.outcome)
          /\ IF r.outcome = "threw"
             THEN Send(ErrorRes(500, "fetch failed")) /\ UNCHANGED inlandRes
             ELSE inlandRes' = r /\ UNCHANGED <<pc, res, sent>>
    /\ UNCHANGED <<variant, hourOffset, name, stationMatch, coastalRes, now,
                   combinedStations, cleanStations, nearest, ran, clockVars, buckets>>

CoastalArrives ==
    /\ pc = "awaitFeeds"
    /\ coastalRes = NoResponse
    /\ fetches[2].kind = "pending"
    /\ \E r \in FeedResponses :
          /\ Len(r.list) + Len(inlandRes.list) <= MaxReports
          /\ fetches' = AnsweredAt(fetches, 2, r.outcome)
          /\ IF r.outcome = "threw"
             THEN Send(ErrorRes(500, "fetch failed")) /\ UNCHANGED coastalRes
             ELSE coastalRes' = r /\ UNCHANGED <<pc, res, sent>>
    /\ UNCHANGED <<variant, hourOffset, name, stationMatch, inlandRes, now,
                   combinedStations, cleanStations, nearest, ran, clockVars, buckets>>

\* all-stations.js:62-135 and part_003:181-265: the rest of the handler, once
\* both responses are there
Merge ==
    /\ pc = "awaitFeeds"
    /\ inlandRes # NoResponse
    /\ coastalRes # NoResponse
    /\ \E nowMs \in NowValues :
          \E out \in MergeOutcomes(variant, inlandRes, coastalRes, nowMs) :
             LET failed == FeedsFailed(inlandRes, coastalRes)
                 combined == IF failed THEN <<>> ELSE Combine(inlandRes, coastalRes)
                 clean == Clean(variant, combined, nowMs)
             IN  /\ Send(out.res)
                 /\ nearest' = out.nearest
                 /\ combinedStations' = combined
                 /\ cleanStations' = clean
                 /\ now' = IF combined = <<>> THEN 0 ELSE nowMs
                 /\ ran' = (IF failed THEN {} ELSE {"combine"})
                           \cup (IF combined # <<>> THEN {"filter"} ELSE {})
                           \cup (IF clean # <<>> /\ variant = "merged"
                                 THEN {"rank"} ELSE {})
                           \cup (IF clean # <<>> /\ out.res.error # "OOR"
                                 THEN {"format"} ELSE {})
    /\ UNCHANGED <<variant, hourOffset, name, stationMatch, inlandRes, coastalRes,
                   fetches, clockVars, buckets>>

Next ==
    \/ StartQuery
    \/ StartDirectory
    \/ StationArrives
    \/ WindArrives
    \/ InlandArrives
    \/ CoastalArrives
    \/ Merge

Spec == Init /\ [][Next]_vars

----------------------------------------------------------------------------
(* Upstream calls that never settle.  Every fetch is awaited as
   `await fetch(url)` (wind.js:23, wind.js:65) or inside `await Promise.all`
   (all-stations.js:51-60, part_000:30-39, part_003:176-179), with no signal,
   timer or race beside it: a call the upstream never answers leaves the
   handler at that await. *)

\* the upstream holds the connection of a fetch open and never answers it
Stalls ==
    /\ pc \in {"awaitStation", "awaitWind", "awaitFeeds"}
    /\ \E k \in 1..Len(fetches) :
          /\ fetches[k].kind = "pending"
          /\ fetches' = [fetches EXCEPT ![k].kind = "stalled"]
    /\ UNCHANGED <<variant, pc, hourOffset, name, stationMatch, inlandRes,
                   coastalRes, now, combinedStations, cleanStations, nearest, ran,
                   res, sent, clockVars, buckets>>

NextLive ==
    \/ Next
    \/ Stalls

\* every step that can be taken is taken in the end: the handler runs on, and
\* the upstream answers every call it has not stalled
LiveSpec == Init /\ [][NextLive]_vars /\ WF_vars(NextLive)

\* the hour-fallback and directory handlers with an upstream that answers
\* every call: every fetch settles in the end and the handler resumes after
\* each await
InitFair == Init /\ variant \in FallbackVariants \cup DirectoryVariants

FairSpec == InitFair /\ [][Next]_vars /\ WF_vars(Next)

----------------------------------------------------------------------------
(* The hour-fallback handlers over the clocks and zones: a request whose
   nearest station is in range and whose hourly responses carry no report
   list, so that the loop runs through every hourOffset *)

InitClocks ==
    /\ variant \in FallbackVariants
    /\ pc = "start"
    /\ hourOffset = 0
    /\ name = Undefined
    /\ stationMatch = NoEntry
    /\ inlandRes = NoResponse
    /\ coastalRes = NoResponse
    /\ now = 0
    /\ combinedStations = <<>>
    /\ cleanStations = <<>>
    /\ nearest = NoNearest
    /\ ran = {}
    /\ res = NoRes
    /\ sent = 0
    /\ fetches = <<>>
    /\ wallClock \in Clocks
    /\ serverZone \in Zones
    /\ buckets = <<>>

StationInRange ==
    StationArrivesFrom({OkList(<<[nimi |-> Str(PiritaRJ),
                                  kaugus |-> Str(<<"5", ".", "9">>)]>>)})

HourUnusable == WindArrivesFrom({OkAbsent})

NextClocks ==
    \/ StartQuery
    \/ StationInRange
    \/ HourUnusable

SpecClocks == InitClocks /\ [][NextClocks]_vars

----------------------------------------------------------------------------
(* Vocabulary of the properties *)

Done == pc = "done"

\* the hourly fetches issued so far, in order
Wind == SelectSeq(fetches, LAMBDA f : f.url = "wind")

\* the parseable-but-unusable outcomes of an hourly fetch
Unusable == {"absent", "empty", "noMatch", "nullMatch"}

\* the number each numeral of HourEntries denotes, in tenths
Denoted(v) ==
    CASE v = Speed36 -> Val(36)
      [] v = Str(<<"5", ".", "2">>) -> Val(52)
      [] v = Num(<<"4", ".", "1">>) -> Val(41)
      [] v = Dir69 -> Val(690)
      [] OTHER -> NaN

IsWindResult(r) == r.status = 200 /\ r.error = ""

Present(v) == v # Null /\ v # Undefined

\* a report with every field the merger needs
Usable(st) ==
    /\ Truthy(st.Jaam)
    /\ Present(st.ws10ma) /\ Present(st.wd10ma) /\ Present(st.Time)
    /\ Present(st.LaiusKraad) /\ Present(st.LaiusMinut) /\ Present(st.LaiusSekund)
    /\ Present(st.PikkusKraad) /\ Present(st.PikkusMinut) /\ Present(st.PikkusSekund)

\* the second of the day each Time string of FeedReports denotes; -1 where
\* there is no timestamp
SecondsOf(v) ==
    CASE v = TimeFresh -> 39600
      [] v = TimeEdge -> 36000
      [] v = TimeStale -> 35999
      [] OTHER -> -1

NowSeconds == now \div 1000

InClean(st) == \E k \in 1..Len(cleanStations) : cleanStations[k] = st

Filtered == Done /\ variant \in MergerVariants /\ "filter" \in ran

----------------------------------------------------------------------------
(* C1 - C5: the Hour-Fallback Resolver *)

\* C1: in the exact-name handler, when every hourly response is
\* HTTP-successful and k is the smallest hourOffset whose bucket holds an
\* entry with the target name and non-null wind speed and direction, the
\* handler issues exactly the fetches of offsets 0..k, one at a time and in
\* that order, and responds with the values of that entry.
C1_EarliestCompleteHour ==
    variant = "exact" =>
        /\ \A j \in 1..(Len(fetches) - 1) : fetches[j].kind # "pending"
        /\ (/\ Done
            /\ \A j \in 1..Len(Wind) : Wind[j].kind \in Unusable \cup {"complete"}
            /\ \E j \in 1..Len(Wind) : Wind[j].kind = "complete")
           => LET k == CHOOSE j \in 1..Len(Wind) :
                          /\ Wind[j].kind = "complete"
                          /\ \A i \in 1..(j - 1) : Wind[i].kind # "complete"
              IN  /\ Len(Wind) = k
                  /\ \A j \in 1..k : Wind[j].hourOffset = j - 1
                  /\ res = WindRes(Denoted(Wind[k].entry.ws10ma),
                                   Denoted(Wind[k].entry.wd10ma))

\* C2, as stated: when no hourOffset yields a complete match, exactly 4
\* hourly fetches occur and the handler responds 200 NO_DATA.
C2_ExhaustionAsStated ==
    (/\ variant = "exact" /\ Done /\ Wind # <<>>
     /\ \A j \in 1..Len(Wind) : Wind[j].kind # "complete")
    => /\ Len(Wind) = 4
       /\ res = ErrorRes(200, "NO_DATA")

\* C2, amended: when every hourly response is HTTP-successful and none yields
\* a complete match, exactly 4 hourly fetches occur, for offsets 0..3, and
\* the handler responds 200 NO_DATA.
C2_Exhaustion ==
    (/\ variant = "exact" /\ Done /\ Wind # <<>>
     /\ \A j \in 1..Len(Wind) : Wind[j].kind \in Unusable)
    => /\ Len(Wind) = 4
       /\ \A j \in 1..Len(Wind) : Wind[j].hourOffset = j - 1
       /\ res = ErrorRes(200, "NO_DATA")
       /\ sent = 1

C2_Witness ==
    /\ variant = "exact" /\ Done
    /\ Len(Wind) = 4
    /\ Wind[1].kind = "nullMatch" /\ Wind[2].kind = "absent"
    /\ Wind[3].kind = "noMatch" /\ Wind[4].kind = "empty"
    /\ res = ErrorRes(200, "NO_DATA")

\* C3: a non-success HTTP response to the hourly fetch of offset k ends the
\* request at once with status 500 and the upstream error: no later hourly
\* fetch is issued, and the outcome is neither NO_DATA nor a wind result.
C3_TransportAbort ==
    variant \in FallbackVariants =>
        \A j \in 1..Len(Wind) :
            Wind[j].kind = "notOk" =>
                /\ j = Len(Wind)
                /\ Done
                /\ sent = 1
                /\ res.status = 500
                /\ res.error = "EMHI P2 Error"
                /\ \E c \in FailStatuses : res.upstream = <<c>>
                /\ res.windSpeed = NaN /\ res.windDir = NaN

C3_Witness ==
    /\ variant = "exact" /\ Done
    /\ Len(Wind) = 3
    /\ Wind[1].kind = "nullMatch" /\ Wind[2].kind = "noMatch"
    /\ Wind[3].kind = "notOk"
    /\ res.status = 500

\* C4: a wind result is only ever returned from an hourly entry whose
\* station name equals the full name of the nearest-station lookup.
C4_ExactNameOnly ==
    (variant \in FallbackVariants /\ Done /\ IsWindResult(res))
    => stationMatch.Jaam = name

\* C5: in the exact-name handler, after each of the four unusable outcomes
\* (report list absent, report list empty, no entry with the target name,
\* matched entry with a null wind speed or direction) at an offset k < 3, no
\* response is sent at that offset and the handler's next step is the
\* hourly fetch of offset k + 1.
C5_UnusableContinues ==
    variant = "exact" =>
        \A j \in 1..Len(Wind) :
            (Wind[j].kind \in Unusable /\ Wind[j].hourOffset < 3) =>
                /\ j < Len(Wind)
                /\ Wind[j + 1].hourOffset = Wind[j].hourOffset + 1
                /\ (j + 1 = Len(Wind) /\ Wind[j + 1].kind = "pending"
                        => sent = 0 /\ pc = "awaitWind" /\ res = NoRes)

C5_Witness ==
    /\ variant = "exact" /\ pc = "awaitWind" /\ sent = 0
    /\ Len(Wind) = 4
    /\ Wind[1].kind = "empty" /\ Wind[2].kind = "noMatch"
    /\ Wind[3].kind = "nullMatch" /\ Wind[4].kind = "pending"

----------------------------------------------------------------------------
(* C6 - C8, C10: the Feed Merger *)

\* the first report of a list that carries the name nm
FirstReport(list, nm) == list[FindIndex(list, nm)]

\* C6: no two clean stations share a name, and when both feeds hold a name
\* with different payloads, the clean list holds no entry of that name
\* other than the first feed's.
C6_FirstFeedWins ==
    Filtered =>
        /\ \A a, b \in 1..Len(cleanStations) :
              a # b => cleanStations[a].Jaam # cleanStations[b].Jaam
        /\ \A a \in 1..Len(inlandRes.list), b \in 1..Len(coastalRes.list) :
              (/\ inlandRes.list[a].Jaam = coastalRes.list[b].Jaam
               /\ inlandRes.list[a] # coastalRes.list[b])
              => \A k \in 1..Len(cleanStations) :
                    cleanStations[k].Jaam = inlandRes.list[a].Jaam
                    => cleanStations[k] = FirstReport(inlandRes.list, inlandRes.list[a].Jaam)

\* C7: every clean station has wind speed, wind direction, timestamp and
\* all coordinate components present (neither null nor absent).
C7_CleanFieldsPresent ==
    Filtered => \A k \in 1..Len(cleanStations) : Usable(cleanStations[k])

\* C8: with times in whole seconds, every clean station's timestamp is at
\* most 2 hours older than the resolution time; a report timestamped
\* now - 2h - 1s is not in the clean list; a usable, first-seen report
\* timestamped now - 1h is in it.
C8_Recency ==
    Filtered =>
        /\ \A k \in 1..Len(cleanStations) :
              /\ SecondsOf(cleanStations[k].Time) # -1
              /\ SecondsOf(cleanStations[k].Time) >= NowSeconds - 7200
        /\ \A k \in 1..Len(combinedStations) :
              SecondsOf(combinedStations[k].Time) = NowSeconds - 7201
              => ~InClean(combinedStations[k])
        /\ \A k \in 1..Len(combinedStations) :
              (/\ SecondsOf(combinedStations[k].Time) = NowSeconds - 3600
               /\ Usable(combinedStations[k])
               /\ \A j \in 1..(k - 1) : combinedStations[j].Jaam # combinedStations[k].Jaam)
              => InClean(combinedStations[k])

C8_Witness ==
    /\ Filtered
    /\ Len(combinedStations) = 2
    /\ SecondsOf(combinedStations[1].Time) = NowSeconds - 7201
    /\ SecondsOf(combinedStations[2].Time) = NowSeconds - 3600
    /\ cleanStations = <<combinedStations[2]>>

\* C10: when both feeds answer and either answers with a non-success
\* status, the request ends with status 500 and an error naming the status
\* of each feed; no station is returned and no combining, filtering,
\* ranking or formatting step runs.
C10_TransportFailure ==
    (/\ variant \in MergerVariants /\ Done
     /\ inlandRes # NoResponse /\ coastalRes # NoResponse
     /\ (inlandRes.outcome = "notOk" \/ coastalRes.outcome = "notOk"))
    => /\ res = UpstreamErrorRes("EMHI Error", <<inlandRes.status, coastalRes.status>>)
       /\ sent = 1
       /\ ran = {}
       /\ combinedStations = <<>> /\ cleanStations = <<>> /\ nearest = NoNearest

C10_Witness ==
    /\ variant \in MergerVariants /\ Done
    /\ inlandRes.outcome = "ok" /\ Len(inlandRes.list) = 2
    /\ \E k \in 1..2 : Usable(inlandRes.list[k]) /\ SecondsOf(inlandRes.list[k].Time) = 39600
    /\ coastalRes.outcome = "notOk"
    /\ res.status = 500

----------------------------------------------------------------------------
(* C9: the Range Gate *)

\* C9: the nearest station is answered with 200 OOR exactly when its
\* distance exceeds 200 km (199.9 and 200 are accepted, 200.1 is rejected);
\* in the hour-fallback handlers the rejection precedes every hourly fetch,
\* so that the request made one upstream fetch.
C9_RangeGate ==
    /\ (variant \in FallbackVariants /\ fetches # <<>>) =>
          /\ fetches[1].kind = "beyond"
                => Done /\ res = ErrorRes(200, "OOR") /\ sent = 1 /\ Len(fetches) = 1
          /\ fetches[1].kind \in {"within", "atLimit", "noDistance"}
                => res.error # "OOR" /\ Len(fetches) >= 2 /\ fetches[2].url = "wind"
          /\ res.error = "OOR" => fetches[1].kind = "beyond"
    /\ (variant = "merged" /\ Done) =>
          /\ "rank" \in ran
                => (res = ErrorRes(200, "OOR")
                        <=> ~nearest.distance.nan /\ nearest.distance.v > 2000)
          /\ res.error = "OOR" => "rank" \in ran
    /\ variant \in DirectoryVariants => res.error # "OOR"

C9_Witness ==
    /\ variant = "exact" /\ Done
    /\ Len(fetches) = 1
    /\ fetches[1].kind = "beyond"
    /\ res = ErrorRes(200, "OOR")

----------------------------------------------------------------------------
(* C11: empty raw list and empty clean list *)

\* the concatenated raw list of both feeds
Raw == inlandRes.list \o coastalRes.list

BothFeedsOk == inlandRes.outcome = "ok" /\ coastalRes.outcome = "ok"

\* where a report stands in the raw list: its first position
PositionInRaw(st) ==
    CHOOSE i \in 1..Len(Raw) : Raw[i] = st /\ \A j \in 1..(i - 1) : Raw[j] # st

\* the stations of a list are reports of the raw list, in the order of the
\* raw list
InRawOrder(list) ==
    /\ \A k \in 1..Len(list) : \E i \in 1..Len(Raw) : Raw[i] = list[k]
    /\ \A a, b \in 1..Len(list) : a < b => PositionInRaw(list[a]) < PositionInRaw(list[b])

\* C11: when both feeds succeed and their concatenated raw list is empty,
\* the request fails with status 500 STATION_LIST_PARSE_FAIL; when the raw
\* list is not empty and no station survives filtering, the request succeeds
\* with status 200: an empty list in the directory handlers, the NO_DATA
\* sentinel in the merged nearest-station handler.
C11_EmptyRawVersusEmptyClean ==
    (variant \in MergerVariants /\ Done /\ BothFeedsOk) =>
        /\ Raw = <<>> => res = ErrorRes(500, "STATION_LIST_PARSE_FAIL")
        /\ (Raw # <<>> /\ cleanStations = <<>>) =>
              /\ res.status = 200
              /\ res.stations = <<>>
              /\ variant = "directory" => res = DirectoryRes(<<>>)
              /\ variant = "envelope" => res = EnvelopeRes(NotAvailable, <<>>)
              /\ variant = "merged" => res = ErrorRes(200, "NO_DATA")

C11_Witness ==
    /\ variant = "merged" /\ Done
    /\ inlandRes.outcome = "ok" /\ Len(inlandRes.list) = 1
    /\ inlandRes.list[1].ws10ma = Null
    /\ coastalRes.outcome = "ok" /\ coastalRes.present /\ coastalRes.list = <<>>
    /\ res = ErrorRes(200, "NO_DATA")

----------------------------------------------------------------------------
(* C12: ranking in the merged nearest-station handler *)

\* the clean stations with their distances, in feed arrival order
Ranked == WithDistance(cleanStations)

IsSuccess(r) == r.status = 200 /\ r.error = ""

\* C12: in the merged nearest-station handler the station returned or
\* tested against the range gate has the minimum distance of all clean
\* stations, and is the first in feed arrival order of those at that
\* distance; a success response names a station at most 200 km away.
C12_NearestIsMinimum ==
    (variant = "merged" /\ Done /\ "rank" \in ran) =>
        /\ ~nearest.distance.nan
        /\ \E k \in 1..Len(Ranked) :
              /\ Ranked[k] = nearest
              /\ \A j \in 1..Len(Ranked) :
                    /\ ~Ranked[j].distance.nan
                    /\ Ranked[j].distance.v >= nearest.distance.v
                    /\ (j < k => Ranked[j].distance.v > nearest.distance.v)
        /\ IsSuccess(res) => nearest.distance.v <= 2000

----------------------------------------------------------------------------
(* C13: the output of the directory handlers *)

\* C13: in the directory handlers, when both feeds succeed and at least one
\* station survives filtering, the response has status 200 and one output
\* record per clean station, in first-seen order of the raw list, none
\* removed or reordered; all-stations.js sends them as a bare array,
\* part_000 inside the { retrieved_at, stations } envelope.
C13_DirectoryOutput ==
    (variant \in DirectoryVariants /\ Done /\ BothFeedsOk /\ cleanStations # <<>>) =>
        /\ res.status = 200
        /\ Len(res.stations) = Len(cleanStations)
        /\ \A k \in 1..Len(cleanStations) :
              /\ k <= Len(res.stations)
              /\ res.stations[k].name = cleanStations[k].Jaam
        /\ InRawOrder(cleanStations)
        /\ (variant = "envelope") = (res.retrieved_at # NoTime)

----------------------------------------------------------------------------
(* C14: the hour buckets *)

\* the Tallinn wall clock k hours before the request's
LocalInstant(k) == wallClock - k

\* C14: for each hourOffset k the (date, hour) pair sent to the hourly feed
\* is the Tallinn calendar day and hour of the day of the one instant
\* now - k hours, whatever the current time and the zone of the server
\* process; successive buckets are consecutive hours, descending.
C14_HourBuckets ==
    /\ \A j \in 1..Len(buckets) :
          /\ buckets[j].date = LocalInstant(j - 1) \div 24
          /\ buckets[j].hour = LocalInstant(j - 1) % 24
    /\ \A j \in 1..(Len(buckets) - 1) :
          buckets[j + 1].hour = (buckets[j].hour + 23) % 24

----------------------------------------------------------------------------
(* C15: concurrency of the two feed fetches *)

\* C15: in the merger handlers both feed fetches are issued before either
\* response is awaited, the merge runs only after both have been answered,
\* and in whichever order the responses arrive the raw list is the inland
\* reports followed by the coastal reports and the clean list is the one
\* that list and the time of the merge determine, in the order of the raw
\* list.
C15_FeedConcurrency ==
    variant \in MergerVariants =>
        /\ fetches # <<>> =>
              /\ Len(fetches) = 2
              /\ fetches[1].url = "inland" /\ fetches[2].url = "coastal"
        /\ (ran # {} \/ combinedStations # <<>>) =>
              /\ fetches[1].kind \in {"ok", "notOk"}
              /\ fetches[2].kind \in {"ok", "notOk"}
              /\ {fetches[1].at, fetches[2].at} = {1, 2}
        /\ Filtered =>
              /\ combinedStations = Raw
              /\ cleanStations = Clean(variant, Raw, now)
              /\ InRawOrder(cleanStations)

C15_Witness ==
    /\ Filtered
    /\ fetches[2].at = 1 /\ fetches[1].at = 2
    /\ Len(inlandRes.list) = 1 /\ Len(coastalRes.list) = 1
    /\ inlandRes.list[1].Jaam = coastalRes.list[1].Jaam
    /\ inlandRes.list[1] # coastalRes.list[1]
    /\ cleanStations = inlandRes.list

----------------------------------------------------------------------------
(* C16: shape failure and empty result *)

IsFailure(r) == r.status = 500

\* C16: a request that received an HTTP-successful response without the
\* entries/entry envelope ends as a failed operation, and a request whose
\* responses all carry the envelope but hold no usable entry ends as a
\* successful sentinel outcome, in the hour-fallback handlers (each hourly
\* fetch) and in the merger handlers (one or both feeds).
C16_ShapeVersusEmpty ==
    /\ (variant \in FallbackVariants /\ Done) =>
          /\ (\E j \in 1..Len(Wind) : Wind[j].kind = "absent") => IsFailure(res)
          /\ (/\ Len(Wind) = 4
              /\ \A j \in 1..Len(Wind) : Wind[j].kind \in Unusable \ {"absent"})
             => res = ErrorRes(200, "NO_DATA")
    /\ (variant \in MergerVariants /\ Done /\ BothFeedsOk) =>
          /\ (~inlandRes.present \/ ~coastalRes.present) => IsFailure(res)
          /\ (inlandRes.present /\ coastalRes.present /\ cleanStations = <<>>)
             => res.status = 200 /\ res.error \in {"", "NO_DATA"}

----------------------------------------------------------------------------
(* C17: the coordinate conversion never fails a request *)

\* C17: in every handler that converts coordinates (the two directory
\* variants and the merged nearest-station handler), a request whose two
\* feeds answered and left at least one clean station does not end with a
\* 500 response: the conversion of a station's coordinates never throws.
C17_NormalizerNeverThrows ==
    (variant \in MergerVariants /\ Done /\ BothFeedsOk /\ cleanStations # <<>>)
        => ~IsFailure(res)

----------------------------------------------------------------------------
(* C18: stations whose coordinates are not numbers *)

HasCoordinates(st) == ~StationLat(st).nan /\ ~StationLon(st).nan

\* the clean stations whose coordinates convert to numbers, with distances
Located == WithDistance(SelectSeq(cleanStations, HasCoordinates))

\* C18: a station whose coordinates convert to NaN is unusable.  A directory
\* response lists no record with a NaN latitude or longitude; the merged
\* nearest-station handler neither returns nor range-tests such a station,
\* and answers as it would had the station not been in the clean list.
C18_NaNCoordinatesUnusable ==
    /\ (variant \in DirectoryVariants /\ Done /\ res.status = 200) =>
          \A k \in 1..Len(res.stations) :
             ~res.stations[k].latitude.nan /\ ~res.stations[k].longitude.nan
    /\ (variant = "merged" /\ Done /\ BothFeedsOk /\ Raw # <<>>) =>
          IF Located = <<>>
          THEN res = ErrorRes(200, "NO_DATA")
          ELSE /\ HasCoordinates(nearest.station)
               /\ \E sorted \in SortOutcomes(Located) : nearest = sorted[1]

----------------------------------------------------------------------------
(* C19: the decimal comma *)

\* the number a wind speed string denotes when its comma is a decimal point
DecimalValue(v) == ParseChars(ReplaceComma(v.s))

\* C19: a wind speed the feeds write with a decimal comma ("3,6") is emitted
\* as the number the same digits with a period denote (3.6), in the
\* hour-fallback handlers, in the merged nearest-station handler and in the
\* directory handlers.
C19_CommaAsPeriod ==
    /\ (variant \in FallbackVariants /\ Done /\ IsWindResult(res)
        /\ stationMatch.ws10ma.t = "string")
          => res.windSpeed = DecimalValue(stationMatch.ws10ma)
    /\ (variant = "merged" /\ Done /\ IsSuccess(res)
        /\ nearest.station.ws10ma.t = "string")
          => res.windSpeed = DecimalValue(nearest.station.ws10ma)
    /\ (variant \in DirectoryVariants /\ Done /\ res.status = 200) =>
          \A k \in 1..Len(res.stations) :
             cleanStations[k].ws10ma.t = "string" =>
                res.stations[k].wind_speed = DecimalValue(cleanStations[k].ws10ma)

----------------------------------------------------------------------------
(* C20: stalled upstream calls *)

\* C20: every execution of a handler eventually ends with a response, also
\* when an upstream call stalls.
C20_EventuallyResponds == <>Done

----------------------------------------------------------------------------
(* C21: one response per request, and a bounded number of fetches *)

Stations == SelectSeq(fetches, LAMBDA f : f.url = "station")

\* C21: when every upstream fetch completes, a request to an hour-fallback
\* handler or to a directory handler ends with a response; exactly one
\* response is sent by then and none before, no fetch is issued after it, and
\* an hour-fallback request issues at most 1 nearest-station fetch and 4
\* hourly fetches.
C21_OneResponse ==
    /\ (variant \in FallbackVariants \cup DirectoryVariants) => <>Done
    /\ [](variant \in FallbackVariants \cup DirectoryVariants =>
            /\ sent = (IF Done THEN 1 ELSE 0)
            /\ (variant \in FallbackVariants => Len(Stations) <= 1 /\ Len(Wind) <= 4))
    /\ [][(variant \in FallbackVariants \cup DirectoryVariants /\ Done) =>
             (Len(fetches') = Len(fetches) /\ sent' = sent)]_vars

\* a fallback request that used all five fetches and answered once
C21_Witness ==
    /\ variant \in FallbackVariants /\ Done /\ sent = 1
    /\ Len(Stations) = 1 /\ Len(Wind) = 4
    /\ \A k \in 1..Len(fetches) : fetches[k].kind \notin Unsettled

----------------------------------------------------------------------------
(* C22: the range gate and a distance that is no number *)

\* C22: in the hour-fallback handlers a nearest-station record whose distance
\* field is missing or denotes no number is not answered with OOR: the
\* handler takes the station's name and issues the hourly fetch of offset 0;
\* and OOR is answered only for a distance that is a number above 200.
C22_GateNeedsNumber ==
    variant \in FallbackVariants =>
        /\ (Len(Stations) = 1 /\ Stations[1].kind = "noDistance") =>
              /\ res # ErrorRes(200, "OOR")
              /\ Truthy(name)
              /\ Len(Wind) >= 1 /\ Wind[1].hourOffset = 0
        /\ res = ErrorRes(200, "OOR") =>
              Len(Stations) = 1 /\ Stations[1].kind = "beyond" /\ Wind = <<>>

\* a station without a usable distance whose first hour answered the request
C22_Witness ==
    /\ variant = "exact" /\ Done
    /\ Len(Stations) = 1
    /\ Stations[1].kind = "noDistance"
    /\ Len(Wind) = 1 /\ Wind[1].kind = "complete"
    /\ IsWindResult(res)

----------------------------------------------------------------------------
(* C23: wind fields that are absent or no strings *)

IsString(v) == v.t = "string"

\* C23: in the hour-fallback handlers a wind result comes only from a matched
\* entry whose wind speed and wind direction are both strings; in the
\* exact-name handler a matched entry with a wind field that is absent or no
\* string is handled like a null field: the search goes on to the next
\* hourOffset (NO_DATA after offset 3) and the request does not end with
\* status 500.
C23_AbsentLikeNull ==
    /\ (variant \in FallbackVariants /\ Done /\ IsWindResult(res)) =>
          IsString(stationMatch.ws10ma) /\ IsString(stationMatch.wd10ma)
    /\ variant = "exact" =>
          \A j \in 1..Len(Wind) :
             (/\ Wind[j].kind = "complete"
              /\ ~(IsString(Wind[j].entry.ws10ma) /\ IsString(Wind[j].entry.wd10ma)))
             => /\ Wind[j].hourOffset < 3 => j < Len(Wind)
                /\ (j = Len(Wind) /\ Done) => res = ErrorRes(200, "NO_DATA")
                /\ ~IsFailure(res)

====
